---- MODULE Spec2Model ----
(***************************************************************************)
(* Model of client.py: one run of the script, from the evaluation of       *)
(* asyncio.run(main()) to the exit of the process.                         *)
(*                                                                         *)
(* main() is a straight line of statements with two awaits that suspend on *)
(* the network (connect, do_command) and one trailing await (close).  The  *)
(* remote machine and the SDK are the environment: which resources the     *)
(* machine exposes, whether the dial and the command succeed, and whether  *)
(* the process is interrupted while main() is suspended.                   *)
(*                                                                         *)
(* connect() (lines 10-13) writes the two keyword arguments of             *)
(* with_api_key without the separating comma; the model reads the call as  *)
(* with_api_key(api_key=..., api_key_id=...), the form the placeholders    *)
(* are meant to be filled in.                                              *)
(***************************************************************************)
EXTENDS Naturals, Sequences, FiniteSets, TLC

VARIABLES
    argv,                       \* the positional command-line argument
    resources,                  \* resources the remote machine exposes
    pc,                         \* position of the run
    session,                    \* state of the RobotClient session
    robot,                      \* main's local: TRUE once connect() returned
    objectfilter,               \* main's local: the handle from_robot returned
    objectfilter_return_value,  \* main's local: <<>> or <<mapping>>
    sent,                       \* payloads handed to do_command, in order
    trace,                      \* session operations, with the session state at the call
    raised,                     \* the exception that left main(), if any
    failed,                     \* the step whose call failed, if any
    stdout,
    stderr,
    exitCode

vars == <<argv, resources, pc, session, robot, objectfilter,
          objectfilter_return_value, sent, trace, raised, failed, stdout,
          stderr, exitCode>>

-----------------------------------------------------------------------------
(* Values *)

VisionServiceLiteral == "<-VISION SERVICE NAME->"

ArgvNames == {VisionServiceLiteral, "detector-1", "detector-2"}

ObjectFilterName == [name |-> "objectfilter", subtype |-> "camera"]

ResourceUniverse ==
    { ObjectFilterName,
      [name |-> "objectfilter", subtype |-> "sensor"],
      [name |-> "cam", subtype |-> "camera"],
      [name |-> "detector-1", subtype |-> "vision"] }

NoHandle == [name |-> "", subtype |-> ""]

NoException == [kind |-> "none", at |-> "none"]

ConnectErrors == {"AuthError", "NetworkError"}

DoCommandErrors == {"TransportError", "RemoteExecutionError", "InvalidPayload"}

NotRunning == 0 - 1

-----------------------------------------------------------------------------
(* Helpers *)

Entry(op) == [op |-> op, session |-> session, handle |-> objectfilter]

Count(op) == Cardinality({i \in 1..Len(trace) : trace[i].op = op})

Line(text, value) == [text |-> text, value |-> value]

\* {"vision-service": argv[1]} : the payload a script reading its argument would build
PayloadFromArgv == "vision-service" :> argv

\* {"vision-service":"<-VISION SERVICE NAME->"}
Payload == "vision-service" :> VisionServiceLiteral

RemoteResults(p) == { p @@ ("status" :> "applied"), "status" :> "unchanged" }

-----------------------------------------------------------------------------
Init ==
    /\ argv \in ArgvNames
    /\ resources \in SUBSET ResourceUniverse
    /\ pc = "start"
    /\ session = "Unconnected"
    /\ robot = FALSE
    /\ objectfilter = NoHandle
    /\ objectfilter_return_value = <<>>
    /\ sent = <<>>
    /\ trace = <<>>
    /\ raised = NoException
    /\ failed = "none"
    /\ stdout = <<>>
    /\ stderr = <<>>
    /\ exitCode = NotRunning

-----------------------------------------------------------------------------
(* robot = await connect() *)

CallConnect ==
    /\ pc = "start"
    /\ trace' = Append(trace, Entry("connect"))
    /\ pc' = "connecting"
    /\ UNCHANGED <<argv, failed, resources, session, robot, objectfilter,
                   objectfilter_return_value, sent, raised, stdout, stderr,
                   exitCode>>

ConnectReturns ==
    /\ pc = "connecting"
    /\ session' = "Open"
    /\ robot' = TRUE
    /\ pc' = "list"
    /\ UNCHANGED <<argv, failed, resources, objectfilter, objectfilter_return_value,
                   sent, trace, raised, stdout, stderr, exitCode>>

\* a handler around connect() that drops the error and carries on
ConnectFailsSwallowed ==
    /\ pc = "connecting"
    /\ pc' = "list"
    /\ UNCHANGED <<argv, failed, resources, session, robot, objectfilter,
                   objectfilter_return_value, sent, trace, raised, stdout,
                   stderr, exitCode>>

ConnectFails ==
    /\ pc = "connecting"
    /\ \E e \in ConnectErrors : raised' = [kind |-> e, at |-> "connect"]
    /\ failed' = "connect"
    /\ pc' = "raised"
    /\ UNCHANGED <<argv, resources, session, robot, objectfilter,
                   objectfilter_return_value, sent, trace, stdout, stderr,
                   exitCode>>

CancelConnect ==
    /\ pc = "connecting"
    /\ raised' = [kind |-> "CancelledError", at |-> "connect"]
    /\ pc' = "raised"
    /\ UNCHANGED <<argv, failed, resources, session, robot, objectfilter,
                   objectfilter_return_value, sent, trace, stdout, stderr,
                   exitCode>>

-----------------------------------------------------------------------------
(* print('Resources:') ; print(robot.resource_names) *)

PrintResources ==
    /\ pc = "list"
    /\ trace' = Append(trace, Entry("resource_names"))
    /\ stdout' = stdout \o << Line("Resources:", <<>>), Line("", resources) >>
    /\ pc' = "resolve"
    /\ UNCHANGED <<argv, failed, resources, session, robot, objectfilter,
                   objectfilter_return_value, sent, raised, stderr, exitCode>>

-----------------------------------------------------------------------------
(* objectfilter = Camera.from_robot(robot, "objectfilter") *)

\* the lookup taken as always yielding a reference, present or not
ResolveAssumedPresent ==
    /\ pc = "resolve"
    /\ trace' = Append(trace, Entry("resolve"))
    /\ objectfilter' = ObjectFilterName
    /\ pc' = "call_do"
    /\ UNCHANGED <<argv, failed, resources, session, robot, objectfilter_return_value,
                   sent, raised, stdout, stderr, exitCode>>

Resolve ==
    /\ pc = "resolve"
    /\ trace' = Append(trace, Entry("resolve"))
    /\ IF ObjectFilterName \in resources
          THEN /\ objectfilter' = ObjectFilterName
               /\ pc' = "call_do"
               /\ UNCHANGED <<raised, failed>>
          ELSE /\ raised' = [kind |-> "ResourceNotFoundError", at |-> "resolve"]
               /\ failed' = "resolve"
               /\ pc' = "raised"
               /\ UNCHANGED objectfilter
    /\ UNCHANGED <<argv, resources, session, robot, objectfilter_return_value,
                   sent, stdout, stderr, exitCode>>

-----------------------------------------------------------------------------
(* objectfilter_return_value = await objectfilter.do_command({...}) *)

CallDoCommand ==
    /\ pc = "call_do"
    /\ sent' = Append(sent, Payload)
    /\ trace' = Append(trace, Entry("do_command"))
    /\ pc' = "invoking"
    /\ UNCHANGED <<argv, failed, resources, session, robot, objectfilter,
                   objectfilter_return_value, raised, stdout, stderr,
                   exitCode>>

DoCommandReturns ==
    /\ pc = "invoking"
    /\ \E r \in RemoteResults(sent[Len(sent)]) :
           objectfilter_return_value' = <<r>>
    /\ pc' = "print_result"
    /\ UNCHANGED <<argv, failed, resources, session, robot, objectfilter, sent, trace,
                   raised, stdout, stderr, exitCode>>

\* a transient error answered by issuing the command again
DoCommandFailsRetried ==
    /\ pc = "invoking"
    /\ \/ /\ Len(sent) < 2
          /\ pc' = "call_do"
          /\ UNCHANGED <<raised, failed>>
       \/ /\ \E e \in DoCommandErrors :
                 raised' = [kind |-> e, at |-> "do_command"]
          /\ failed' = "do_command"
          /\ pc' = "raised"
    /\ UNCHANGED <<argv, resources, session, robot, objectfilter,
                   objectfilter_return_value, sent, trace, stdout, stderr,
                   exitCode>>

\* an error answered by carrying on with an empty result
DoCommandFailsRecovered ==
    /\ pc = "invoking"
    /\ failed' = "do_command"
    /\ UNCHANGED raised
    /\ objectfilter_return_value' = << <<>> >>
    /\ pc' = "print_result"
    /\ UNCHANGED <<argv, resources, session, robot, objectfilter, sent, trace,
                   stdout, stderr, exitCode>>

DoCommandFails ==
    /\ pc = "invoking"
    /\ \E e \in DoCommandErrors : raised' = [kind |-> e, at |-> "do_command"]
    /\ failed' = "do_command"
    /\ pc' = "raised"
    /\ UNCHANGED <<argv, resources, session, robot, objectfilter,
                   objectfilter_return_value, sent, trace, stdout, stderr,
                   exitCode>>

CancelDoCommand ==
    /\ pc = "invoking"
    /\ raised' = [kind |-> "CancelledError", at |-> "do_command"]
    /\ pc' = "raised"
    /\ UNCHANGED <<argv, failed, resources, session, robot, objectfilter,
                   objectfilter_return_value, sent, trace, stdout, stderr,
                   exitCode>>

-----------------------------------------------------------------------------
(* print(f"Do_Command result: {objectfilter_return_value}") *)

PrintResult ==
    /\ pc = "print_result"
    /\ stdout' = Append(stdout, Line("Do_Command result: ",
                                     objectfilter_return_value[1]))
    /\ pc' = "call_close"
    /\ UNCHANGED <<argv, failed, resources, session, robot, objectfilter,
                   objectfilter_return_value, sent, trace, raised, stderr,
                   exitCode>>

-----------------------------------------------------------------------------
(* await robot.close() *)

Close ==
    /\ pc = "call_close"
    /\ trace' = Append(trace, Entry("close"))
    /\ session' = "Closed"
    /\ pc' = "returned"
    /\ UNCHANGED <<argv, failed, resources, robot, objectfilter,
                   objectfilter_return_value, sent, raised, stdout, stderr,
                   exitCode>>

-----------------------------------------------------------------------------
(* if __name__ == '__main__': asyncio.run(main()) *)

\* a top level that reports the exception and still ends normally
RunExitAlwaysZero ==
    /\ pc \in {"returned", "raised"}
    /\ exitCode' = 0
    /\ UNCHANGED stderr
    /\ pc' = "done"
    /\ UNCHANGED <<argv, failed, resources, session, robot, objectfilter,
                   objectfilter_return_value, sent, trace, raised, stdout>>

RunExit ==
    /\ pc \in {"returned", "raised"}
    /\ IF pc = "returned"
          THEN /\ exitCode' = 0
               /\ UNCHANGED stderr
          ELSE /\ exitCode' = IF raised.kind = "CancelledError" THEN 130 ELSE 1
               /\ stderr' = Append(stderr, raised.kind)
    /\ pc' = "done"
    /\ UNCHANGED <<argv, failed, resources, session, robot, objectfilter,
                   objectfilter_return_value, sent, trace, raised, stdout>>

-----------------------------------------------------------------------------
Next ==
    \/ CallConnect
    \/ ConnectReturns
    \/ ConnectFails
    \/ CancelConnect
    \/ PrintResources
    \/ Resolve
    \/ CallDoCommand
    \/ DoCommandReturns
    \/ DoCommandFails
    \/ CancelDoCommand
    \/ PrintResult
    \/ Close
    \/ RunExit

Spec == Init /\ [][Next]_vars

-----------------------------------------------------------------------------
(* Derived notions *)

Connected == robot

Cancelled == raised.kind = "CancelledError"

ResultPrinted == \E i \in 1..Len(stdout) : stdout[i].text = "Do_Command result: "

LastOp == IF trace = <<>> THEN "none" ELSE trace[Len(trace)].op

TypeOK ==
    /\ argv \in ArgvNames
    /\ resources \subseteq ResourceUniverse
    /\ pc \in {"start", "connecting", "list", "resolve", "call_do", "invoking",
               "print_result", "call_close", "returned", "raised", "done"}
    /\ session \in {"Unconnected", "Open", "Closed"}
    /\ robot \in BOOLEAN
    /\ objectfilter \in {NoHandle, ObjectFilterName}
    /\ Len(objectfilter_return_value) <= 1
    /\ exitCode \in {NotRunning, 0, 1, 130}

-----------------------------------------------------------------------------
(* Properties *)

AllSucceeded == pc = "done" /\ failed = "none" /\ ~Cancelled

NoObjectFilterExposed == \A r \in resources : r.name # "objectfilter"

\* C1: every run in which connect() succeeded ends with the session closed,
\* whatever the outcome of the later steps.
C1_ClosedOnEveryExit ==
    (pc = "done" /\ Connected) => session = "Closed"

\* C2: a run cancelled while suspended in connect() or in do_command still
\* calls close before the cancellation leaves main(), and no cancelled run
\* ends with the session Open.
C2_CancelStillCloses ==
    (pc \in {"raised", "done"} /\ Cancelled)
        => /\ session # "Open"
           /\ Connected => LastOp = "close"

\* C3: resource_names is read, "objectfilter" is resolved and do_command is
\* issued only while the session is Open, and do_command only on the handle
\* resolved from that session; none of them happens before a successful
\* connect or after close.
C3_OperationsOnlyWhileOpen ==
    \A i \in 1..Len(trace) :
        /\ trace[i].op \in {"resource_names", "resolve", "do_command"}
              => /\ trace[i].session = "Open"
                 /\ \E j \in 1..(i-1) : trace[j].op = "connect"
                 /\ \A j \in 1..(i-1) : trace[j].op # "close"
        /\ trace[i].op = "do_command"
              => /\ trace[i].handle = ObjectFilterName
                 /\ \E j \in 1..(i-1) : trace[j].op = "resolve"

C3_Witness ==
    /\ pc = "done"
    /\ Count("resource_names") = 1
    /\ Count("resolve") = 1
    /\ Count("do_command") = 1
    /\ Count("close") = 1

\* C4: once a step (connect, resolve, do_command) has failed, its exception
\* leaves main(); no later step of the sequence runs, the result line is not
\* printed, and the run does not end in the success outcome.
C4_FailurePropagates ==
    failed # "none"
        => /\ pc \in {"raised", "done"}
           /\ raised.kind # "none" /\ raised.at = failed
           /\ LastOp = failed
           /\ ~ResultPrinted
           /\ exitCode # 0

C4_Witness ==
    /\ pc = "done"
    /\ failed = "do_command"
    /\ raised.kind = "TransportError"

\* C5: in one run connect is attempted at most once and do_command is issued
\* at most once, also when the attempt failed with a transient error.
C5_NoRetries ==
    /\ Count("connect") <= 1
    /\ Count("do_command") <= 1
    /\ Len(sent) <= 1

C5_Witness ==
    /\ pc = "done"
    /\ raised.kind = "TransportError"
    /\ Count("connect") = 1
    /\ Count("do_command") = 1

\* C6: when connect, resolve and do_command all succeeded, the result of
\* do_command is on standard output and the exit code is 0; when one of them
\* failed, the exit code is not 0, standard error holds a message and the
\* result line is not on standard output.
C6_OutcomeReflectsRun ==
    pc = "done"
        => /\ AllSucceeded
              => /\ exitCode = 0
                 /\ Len(objectfilter_return_value) = 1
                 /\ stdout[Len(stdout)] =
                        Line("Do_Command result: ", objectfilter_return_value[1])
           /\ failed # "none"
              => /\ exitCode \notin {0, NotRunning}
                 /\ stderr # <<>>
                 /\ ~ResultPrinted

C6_Witness ==
    /\ pc = "done"
    /\ failed = "resolve"
    /\ exitCode = 1
    /\ stdout # <<>>

\* C7 (as stated): the value sent under "vision-service" is the name given
\* as the positional command-line argument.
C7_PayloadFromArgument ==
    \A i \in 1..Len(sent) :
        /\ DOMAIN sent[i] = {"vision-service"}
        /\ sent[i]["vision-service"] = argv

\* C7 (amended): the payload is the single-entry mapping whose key is
\* "vision-service" and whose value is the literal written in the script,
\* the same for every command-line argument.
C7_PayloadIsLiteral ==
    \A i \in 1..Len(sent) :
        /\ DOMAIN sent[i] = {"vision-service"}
        /\ sent[i]["vision-service"] = VisionServiceLiteral

C7_Witness ==
    /\ Len(sent) = 1
    /\ argv = "detector-1"
    /\ pc = "done"

\* C8: close is called exactly once per successful connect: at most once,
\* never without a successful connect, and on the all-success path as the
\* last session operation, after the result was printed.
C8_CloseExactlyOnce ==
    pc = "done"
        => /\ Count("close") = (IF Connected THEN 1 ELSE 0)
           /\ AllSucceeded => (LastOp = "close" /\ ResultPrinted)

\* C10: when the machine exposes no resource named "objectfilter", the
\* lookup fails, main() holds no handle and do_command is never issued.
C10_AbsentResourceNeverInvoked ==
    NoObjectFilterExposed
        => /\ objectfilter = NoHandle
           /\ Count("do_command") = 0
           /\ sent = <<>>
           /\ Count("resolve") = 1
                 => (failed = "resolve" /\ raised.kind = "ResourceNotFoundError")

C10_Witness ==
    /\ NoObjectFilterExposed
    /\ resources # {}
    /\ Count("resolve") = 1
    /\ pc = "done"

====
